---- MODULE Spec2Model ----
(***************************************************************************)
(* Model of the web-search pipeline: SearchService (orchestrator),         *)
(* WebSearchClient (provider gateway, request builder, normalization) and  *)
(* ResponseParser.  A caller invokes one public operation at a time; a     *)
(* SearchService.search invocation proceeds validate -> gateway -> parse.  *)
(***************************************************************************)
EXTENDS Integers, Sequences, FiniteSets, TLC

VARIABLES
    frames,         \* concurrent invocations: the local variables of each
    gateway,        \* the object constructed, if any, and the credential it holds
    pc,             \* where the caller's current invocation stands
    call,           \* the operation invoked and its arguments
    options,        \* SearchService.search: the options after defaulting
    provider,       \* what the provider call of this invocation did
    clientOutcome,  \* what WebSearchClient.search returned or raised
    raw_response,   \* SearchService.search: the gateway's normalized response
    providerCalls,  \* payloads passed to client.responses.create, in order
    parserCalls,    \* arguments passed to parser.parse, in order
    parserOutcome,  \* what ResponseParser.parse returned or raised
    outcome         \* what the invoked operation returned or raised

vars ==
    <<frames, gateway, pc, call, options, provider, clientOutcome, raw_response, providerCalls,
      parserCalls, parserOutcome, outcome>>

(***************************************************************************)
(* Bounds of the model.                                                    *)
(***************************************************************************)
MaxRuns == 3
MaxProviderItems == 2
MaxOutputItems == 3
MaxClock == 2
MaxDomainListLen == 2
MaxInvocations == 2
MaxSources == 7

(***************************************************************************)
(* Python values.  An optional value is <<>> (None) or <<v>>.              *)
(***************************************************************************)
None == <<>>
Some(v) == <<v>>
IsNone(o) == Len(o) = 0
Unwrap(o) == o[1]

\* dict.get(key, default) and "key in dict" on a normalized mapping (a record).
Has(d, k) == k \in DOMAIN d
Get(d, k, default) == IF k \in DOMAIN d THEN d[k] ELSE default

(***************************************************************************)
(* Query strings, run-length encoded: a sequence of runs [ch, n] meaning   *)
(* the character ch repeated n times; adjacent runs differ in ch.  The     *)
(* encoding is canonical, so equality of encodings is equality of strings. *)
(***************************************************************************)
Chars == {" ", "a"}
IsSpace(c) == c = " "

ServiceMaxQueryLen == 5000
ClientMaxQueryLen == 5000

RunLens == {1, ServiceMaxQueryLen, ServiceMaxQueryLen + 1}
Runs == [ch : Chars, n : RunLens]

Canonical(s) == \A i \in 1..(Len(s) - 1) : s[i].ch # s[i + 1].ch

Strings == UNION {{s \in [1..k -> Runs] : Canonical(s)} : k \in 0..MaxRuns}

RECURSIVE PyLen(_)
PyLen(s) == IF s = <<>> THEN 0 ELSE Head(s).n + PyLen(Tail(s))

RECURSIVE LStrip(_)
LStrip(s) == IF s # <<>> /\ IsSpace(Head(s).ch) THEN LStrip(Tail(s)) ELSE s

RECURSIVE RStrip(_)
RStrip(s) ==
    IF s # <<>> /\ IsSpace(s[Len(s)].ch) THEN RStrip(SubSeq(s, 1, Len(s) - 1)) ELSE s

\* str.strip()
strip(s) == RStrip(LStrip(s))

\* Python truthiness of a string: non-empty.
StrTruthy(s) == PyLen(s) > 0

(***************************************************************************)
(* Exceptions and outcomes of a call.                                      *)
(***************************************************************************)
Exc(cls, msg) == [cls |-> cls, msg |-> msg]

SearchError(code, message, details) ==
    [cls |-> "SearchError", code |-> code, message |-> message, details |-> details]

Raise(e) == [kind |-> "raise", exc |-> e]
Return(v) == [kind |-> "return", value |-> v]
NoOutcome == [kind |-> "none"]

\* str(e) of a built-in or provider exception is its message.
ExcStr(e) == e.msg

\* The provider library's exception hierarchy (class -> its base classes,
\* itself included), as far as the except clauses distinguish it.
Bases(cls) ==
    CASE cls = "AuthenticationError" -> {"AuthenticationError", "APIError", "Exception"}
      [] cls = "RateLimitError" -> {"RateLimitError", "APIError", "Exception"}
      [] cls = "APIConnectionError" -> {"APIConnectionError", "APIError", "Exception"}
      [] cls = "APIError" -> {"APIError", "Exception"}
      [] OTHER -> {cls, "Exception"}

IsInstance(e, cls) == cls \in Bases(e.cls)

(***************************************************************************)
(* Construction (client.py, search_service.py): the outcome is the         *)
(* credential the gateway holds, or the exception raised.                  *)
(***************************************************************************)
\* Truthiness of an optional string: set and non-empty.
OptStrTruthy(o) == ~IsNone(o) /\ Unwrap(o) # ""

MissingKey ==
    Exc("ValueError",
        "API key must be provided or set in OPENAI_API_KEY environment variable")

\* Faulty variant: only an absent key is refused, an empty one is kept.
WebSearchClient_init_accepts_empty(api_key, env) ==
    LET key == IF OptStrTruthy(api_key) THEN api_key ELSE env
    IN IF IsNone(key) THEN Raise(MissingKey) ELSE Return(Unwrap(key))

\* self.api_key = api_key or os.getenv("OPENAI_API_KEY"); env is the value
\* of that variable.
WebSearchClient_init(api_key, env) ==
    LET key == IF OptStrTruthy(api_key) THEN api_key ELSE env
    IN IF ~OptStrTruthy(key) THEN Raise(MissingKey) ELSE Return(Unwrap(key))

SearchService_init(api_key, env) ==
    IF ~OptStrTruthy(api_key) THEN Raise(Exc("ValueError", "API key is required"))
    ELSE WebSearchClient_init(api_key, env)

(***************************************************************************)
(* SearchOptions (models.py) and the request builder.                      *)
(***************************************************************************)
SearchOptions(model, allowed_domains, user_location, reasoning_effort) ==
    [model |-> model, allowed_domains |-> allowed_domains,
     user_location |-> user_location, reasoning_effort |-> reasoning_effort]

DefaultSearchOptions == SearchOptions("gpt-4o-mini", None, None, "low")

\* Faulty variants: the test is `is not None` instead of truthiness.
OptListTruthy_is_set(o) == ~IsNone(o)
OptDictTruthy_is_set(o) == ~IsNone(o)

\* Truthiness of an optional list / mapping: set and non-empty.
OptListTruthy(o) == ~IsNone(o) /\ Len(Unwrap(o)) > 0
OptDictTruthy(o) == ~IsNone(o) /\ DOMAIN Unwrap(o) # {}

\* Faulty variant: the query is trimmed before it is sent.
_construct_payload_trimmed_input(query, opts) ==
    LET tool0 == [type |-> "web_search"]
        tool1 == IF OptListTruthy(opts.allowed_domains)
                 THEN tool0 @@ [filters |-> [allowed_domains |-> Unwrap(opts.allowed_domains)]]
                 ELSE tool0
        tool2 == IF OptDictTruthy(opts.user_location)
                 THEN tool1 @@ [user_location |-> Unwrap(opts.user_location)]
                 ELSE tool1
        base == [model |-> opts.model, input |-> strip(query), tools |-> <<tool2>>]
        withReasoning == IF opts.reasoning_effort # "low"
                         THEN base @@ [reasoning |-> [effort |-> opts.reasoning_effort]]
                         ELSE base
    IN withReasoning @@ [include |-> <<"web_search_call.action.sources">>]

\* Faulty variant: the reasoning field is attached only for "high".
_construct_payload_reasoning_high_only(query, opts) ==
    LET tool0 == [type |-> "web_search"]
        tool1 == IF OptListTruthy(opts.allowed_domains)
                 THEN tool0 @@ [filters |-> [allowed_domains |-> Unwrap(opts.allowed_domains)]]
                 ELSE tool0
        tool2 == IF OptDictTruthy(opts.user_location)
                 THEN tool1 @@ [user_location |-> Unwrap(opts.user_location)]
                 ELSE tool1
        base == [model |-> opts.model, input |-> query, tools |-> <<tool2>>]
        withReasoning == IF opts.reasoning_effort = "high"
                         THEN base @@ [reasoning |-> [effort |-> opts.reasoning_effort]]
                         ELSE base
    IN withReasoning @@ [include |-> <<"web_search_call.action.sources">>]

_construct_payload(query, opts) ==
    LET tool0 == [type |-> "web_search"]
        tool1 == IF OptListTruthy(opts.allowed_domains)
                 THEN tool0 @@ [filters |-> [allowed_domains |-> Unwrap(opts.allowed_domains)]]
                 ELSE tool0
        tool2 == IF OptDictTruthy(opts.user_location)
                 THEN tool1 @@ [user_location |-> Unwrap(opts.user_location)]
                 ELSE tool1
        base == [model |-> opts.model, input |-> query, tools |-> <<tool2>>]
        withReasoning == IF opts.reasoning_effort # "low"
                         THEN base @@ [reasoning |-> [effort |-> opts.reasoning_effort]]
                         ELSE base
    IN withReasoning @@ [include |-> <<"web_search_call.action.sources">>]

(***************************************************************************)
(* SearchError.__str__ (models.py).  The details shown are mappings of at  *)
(* most one entry with a string value, whose repr is {'key': 'value'}.     *)
(***************************************************************************)
DictRepr(d) ==
    IF DOMAIN d = {} THEN "{}"
    ELSE LET k == CHOOSE key \in DOMAIN d : TRUE
         IN "{'" \o k \o "': '" \o d[k] \o "'}"

\* Faulty variant: details are shown whenever they are set, even if empty.
SearchError_str_details_if_set(e) ==
    LET error_str == "[" \o e.code \o "] " \o e.message
    IN IF ~IsNone(e.details) THEN error_str \o " | Details: " \o DictRepr(Unwrap(e.details))
       ELSE error_str

SearchError_str(e) ==
    LET error_str == "[" \o e.code \o "] " \o e.message
    IN IF OptDictTruthy(e.details)
       THEN error_str \o " | Details: " \o DictRepr(Unwrap(e.details))
       ELSE error_str

(***************************************************************************)
(* Provider-side values: what client.responses.create returns is a graph   *)
(* of attribute-bearing objects, plain mappings, lists and None.           *)
(***************************************************************************)
Obj(attrs) == [kind |-> "obj", attrs |-> attrs]
Dict(attrs) == [kind |-> "dict", attrs |-> attrs]
List(items) == [kind |-> "list", items |-> items]
PyNone == [kind |-> "none"]

Ok(v) == [ok |-> TRUE, value |-> v]
Err(e) == [ok |-> FALSE, exc |-> e]

ClassName(o) ==
    CASE o.kind = "dict" -> "dict"
      [] o.kind = "list" -> "list"
      [] o.kind = "none" -> "NoneType"
      [] OTHER -> "object"

\* hasattr(o, name): only attribute-bearing objects carry data attributes.
hasattr(o, name) == o.kind = "obj" /\ name \in DOMAIN o.attrs

AttributeError(o, name) ==
    Exc("AttributeError",
        "'" \o ClassName(o) \o "' object has no attribute '" \o name \o "'")

\* o.name
GetAttr(o, name) == IF hasattr(o, name) THEN Ok(o.attrs[name]) ELSE Err(AttributeError(o, name))

\* getattr(o, name, default)
GetAttrDefault(o, name, default) == IF hasattr(o, name) THEN o.attrs[name] ELSE default

\* for x in v: the items of v, or TypeError when v is not iterable.
Iter(v) ==
    IF v.kind = "list" THEN Ok(v.items)
    ELSE Err(Exc("TypeError", "'" \o ClassName(v) \o "' object is not iterable"))

\* A loop or comprehension over converted items: the first failure, in
\* order, escapes; otherwise the list of converted values.
Collect(conv) ==
    IF \E i \in 1..Len(conv) : ~conv[i].ok
    THEN Err(conv[CHOOSE i \in 1..Len(conv) :
                     ~conv[i].ok /\ \A j \in 1..(i - 1) : conv[j].ok].exc)
    ELSE Ok([i \in 1..Len(conv) |-> conv[i].value])

\* {"url": s.url, "type": s.type}
SourceToDict(s) ==
    IF ~hasattr(s, "url") THEN Err(AttributeError(s, "url"))
    ELSE IF ~hasattr(s, "type") THEN Err(AttributeError(s, "type"))
    ELSE Ok([url |-> s.attrs.url, type |-> s.attrs.type])

_action_to_dict(action) ==
    LET d0 == <<>>
        d1 == IF hasattr(action, "type") THEN d0 @@ [type |-> action.attrs.type] ELSE d0
        d2 == IF hasattr(action, "query") THEN d1 @@ [query |-> action.attrs.query] ELSE d1
        d3 == IF hasattr(action, "domains") THEN d2 @@ [domains |-> action.attrs.domains] ELSE d2
    IN IF ~hasattr(action, "sources") THEN Ok(d3)
       ELSE LET it == Iter(action.attrs.sources)
            IN IF ~it.ok THEN it
               ELSE LET srcs == Collect([i \in 1..Len(it.value) |-> SourceToDict(it.value[i])])
                    IN IF ~srcs.ok THEN srcs ELSE Ok(d3 @@ [sources |-> srcs.value])

AnnotationFields == <<"type", "url", "title", "start_index", "end_index">>

\* {"type": ann.type, "url": ann.url, "title": ann.title, ...}
AnnotationToDict(ann) ==
    IF \E i \in 1..Len(AnnotationFields) : ~hasattr(ann, AnnotationFields[i])
    THEN Err(AttributeError(ann, AnnotationFields[
                 CHOOSE i \in 1..Len(AnnotationFields) :
                     /\ ~hasattr(ann, AnnotationFields[i])
                     /\ \A j \in 1..(i - 1) : hasattr(ann, AnnotationFields[j])]))
    ELSE Ok([type |-> ann.attrs.type, url |-> ann.attrs.url, title |-> ann.attrs.title,
             start_index |-> ann.attrs.start_index, end_index |-> ann.attrs.end_index])

ContentItemToDict(item) ==
    IF item.kind = "dict" THEN Ok(item.attrs)
    ELSE LET d0 == [type |-> IF hasattr(item, "type") THEN item.attrs.type ELSE "unknown"]
             d1 == IF hasattr(item, "text") THEN d0 @@ [text |-> item.attrs.text] ELSE d0
         IN IF ~hasattr(item, "annotations") THEN Ok(d1)
            ELSE LET it == Iter(item.attrs.annotations)
                 IN IF ~it.ok THEN it
                    ELSE LET anns == Collect([i \in 1..Len(it.value) |->
                                                 AnnotationToDict(it.value[i])])
                         IN IF ~anns.ok THEN anns
                            ELSE Ok(d1 @@ [annotations |-> anns.value])

_content_to_dict(content) ==
    LET it == Iter(content)
    IN IF ~it.ok THEN it
       ELSE Collect([i \in 1..Len(it.value) |-> ContentItemToDict(it.value[i])])

OutputItemToDict(item) ==
    IF ~hasattr(item, "type") THEN Err(AttributeError(item, "type"))
    ELSE LET d0 == [type |-> item.attrs.type]
             d1 == IF hasattr(item, "id") THEN d0 @@ [id |-> item.attrs.id] ELSE d0
             d2 == IF hasattr(item, "status") THEN d1 @@ [status |-> item.attrs.status] ELSE d1
         IN IF item.attrs.type = "web_search_call"
            THEN IF ~hasattr(item, "action") THEN Ok(d2)
                 ELSE LET a == _action_to_dict(item.attrs.action)
                      IN IF ~a.ok THEN a ELSE Ok(d2 @@ [action |-> a.value])
            ELSE IF item.attrs.type = "message"
            THEN LET d3 == IF hasattr(item, "role") THEN d2 @@ [role |-> item.attrs.role] ELSE d2
                 IN IF ~hasattr(item, "content") THEN Ok(d3)
                    ELSE LET c == _content_to_dict(item.attrs.content)
                         IN IF ~c.ok THEN c ELSE Ok(d3 @@ [content |-> c.value])
            ELSE Ok(d2)

_response_to_dict(response) ==
    LET result == [id |-> GetAttrDefault(response, "id", "unknown"),
                   model |-> GetAttrDefault(response, "model", "unknown"),
                   created |-> GetAttrDefault(response, "created", 0)]
        out == GetAttr(response, "output")
    IN IF ~out.ok THEN out
       ELSE LET it == Iter(out.value)
            IN IF ~it.ok THEN it
               ELSE LET items == Collect([i \in 1..Len(it.value) |->
                                             OutputItemToDict(it.value[i])])
                    IN IF ~items.ok THEN items
                       ELSE Ok(result @@ [output |-> items.value])

(***************************************************************************)
(* WebSearchClient.search: the provider gateway.  `behaviour` is what the  *)
(* one call to client.responses.create does: it raises an exception or     *)
(* returns a response object.  The result is the outcome of the call and   *)
(* the payloads handed to the provider, in order.                          *)
(***************************************************************************)
ProviderRaises(e) == [kind |-> "raise", exc |-> e]
ProviderReturns(r) == [kind |-> "return", response |-> r]

\* Faulty variant: the generic APIError clause is tried first, so it also
\* catches its subclasses.
MapProviderError_api_first(e) ==
    IF IsInstance(e, "APIError")
    THEN SearchError("API_ERROR", "API request failed: " \o ExcStr(e),
                     Some([original_error |-> ExcStr(e)]))
    ELSE IF IsInstance(e, "AuthenticationError")
    THEN SearchError("AUTHENTICATION_ERROR", "Invalid API key or authentication failed",
                     Some([original_error |-> ExcStr(e)]))
    ELSE IF IsInstance(e, "RateLimitError")
    THEN SearchError("RATE_LIMIT_ERROR", "API rate limit exceeded",
                     Some([original_error |-> ExcStr(e)]))
    ELSE SearchError("UNKNOWN_ERROR", "Unexpected error: " \o ExcStr(e),
                     Some([original_error |-> ExcStr(e)]))

\* The except clauses of WebSearchClient.search, tried in source order.
MapProviderError(e) ==
    IF IsInstance(e, "AuthenticationError")
    THEN SearchError("AUTHENTICATION_ERROR", "Invalid API key or authentication failed",
                     Some([original_error |-> ExcStr(e)]))
    ELSE IF IsInstance(e, "RateLimitError")
    THEN SearchError("RATE_LIMIT_ERROR", "API rate limit exceeded",
                     Some([original_error |-> ExcStr(e)]))
    ELSE IF IsInstance(e, "APIError")
    THEN SearchError("API_ERROR", "API request failed: " \o ExcStr(e),
                     Some([original_error |-> ExcStr(e)]))
    ELSE SearchError("UNKNOWN_ERROR", "Unexpected error: " \o ExcStr(e),
                     Some([original_error |-> ExcStr(e)]))

\* The try block: one provider call, then normalization of what it returned.
ClientTry(payload, behaviour) ==
    IF behaviour.kind = "raise" THEN Raise(MapProviderError(behaviour.exc))
    ELSE LET d == _response_to_dict(behaviour.response)
         IN IF d.ok THEN Return(d.value) ELSE Raise(MapProviderError(d.exc))

\* Faulty variant: a rate-limited request is sent a second time.
WebSearchClient_search_retry(query, optionsArg, behaviour) ==
    IF ~StrTruthy(query) \/ ~StrTruthy(strip(query))
    THEN [outcome |-> Raise(Exc("ValueError", "Query cannot be empty")), calls |-> <<>>]
    ELSE IF PyLen(query) > ClientMaxQueryLen
    THEN [outcome |-> Raise(Exc("ValueError", "Query too long (max 5000 characters)")),
          calls |-> <<>>]
    ELSE LET opts == IF IsNone(optionsArg) THEN DefaultSearchOptions ELSE Unwrap(optionsArg)
             payload == _construct_payload(query, opts)
         IN [outcome |-> ClientTry(payload, behaviour),
             calls |-> IF behaviour.kind = "raise" /\ behaviour.exc.cls = "RateLimitError"
                       THEN <<payload, payload>>
                       ELSE <<payload>>]

\* Faulty variant: the query is checked inside the try block, so the
\* ValueError is caught by `except Exception`.
WebSearchClient_search_validate_in_try(query, optionsArg, behaviour) ==
    IF ~StrTruthy(query) \/ ~StrTruthy(strip(query))
    THEN [outcome |-> Raise(MapProviderError(Exc("ValueError", "Query cannot be empty"))),
          calls |-> <<>>]
    ELSE IF PyLen(query) > ClientMaxQueryLen
    THEN [outcome |-> Raise(MapProviderError(
                          Exc("ValueError", "Query too long (max 5000 characters)"))),
          calls |-> <<>>]
    ELSE LET opts == IF IsNone(optionsArg) THEN DefaultSearchOptions ELSE Unwrap(optionsArg)
             payload == _construct_payload(query, opts)
         IN [outcome |-> ClientTry(payload, behaviour), calls |-> <<payload>>]

WebSearchClient_search(query, optionsArg, behaviour) ==
    IF ~StrTruthy(query) \/ ~StrTruthy(strip(query))
    THEN [outcome |-> Raise(Exc("ValueError", "Query cannot be empty")), calls |-> <<>>]
    ELSE IF PyLen(query) > ClientMaxQueryLen
    THEN [outcome |-> Raise(Exc("ValueError", "Query too long (max 5000 characters)")),
          calls |-> <<>>]
    ELSE LET opts == IF IsNone(optionsArg) THEN DefaultSearchOptions ELSE Unwrap(optionsArg)
             payload == _construct_payload(query, opts)
         IN [outcome |-> ClientTry(payload, behaviour), calls |-> <<payload>>]

(***************************************************************************)
(* ResponseParser (parser.py), on a normalized response: mappings are      *)
(* records, lists are sequences.                                           *)
(***************************************************************************)
Citation(url, title, start_index, end_index) ==
    [url |-> url, title |-> title, start_index |-> start_index, end_index |-> end_index]

\* Citation.length
CitationLength(citation) == citation.end_index - citation.start_index

Source(url, type) == [url |-> url, type |-> type]

SearchResult(query, text, citations, sources, search_id, timestamp) ==
    [query |-> query, text |-> text, citations |-> citations, sources |-> sources,
     search_id |-> search_id, timestamp |-> timestamp]

\* item.get("type") == t
TypeIs(d, t) == Has(d, "type") /\ d.type = t

\* Faulty variant: every annotation becomes a citation, whatever its type.
RECURSIVE _extract_citations_any_type(_)
_extract_citations_any_type(annotations) ==
    IF annotations = <<>> THEN <<>>
    ELSE LET annotation == Head(annotations)
         IN <<Citation(Get(annotation, "url", ""), Get(annotation, "title", ""),
                       Get(annotation, "start_index", 0),
                       Get(annotation, "end_index", 0))>>
            \o _extract_citations_any_type(Tail(annotations))

RECURSIVE _extract_citations(_)
_extract_citations(annotations) ==
    IF annotations = <<>> THEN <<>>
    ELSE LET annotation == Head(annotations)
         IN (IF TypeIs(annotation, "url_citation")
             THEN <<Citation(Get(annotation, "url", ""), Get(annotation, "title", ""),
                             Get(annotation, "start_index", 0),
                             Get(annotation, "end_index", 0))>>
             ELSE <<>>) \o _extract_citations(Tail(annotations))

_extract_sources(action) ==
    LET sources_data == Get(action, "sources", <<>>)
    IN [i \in 1..Len(sources_data) |->
           Source(Get(sources_data[i], "url", ""), Get(sources_data[i], "type", "web"))]

\* The inner loop of the first pass: every output_text entry assigns text
\* and citations.
RECURSIVE ScanContent(_, _)
ScanContent(content, acc) ==
    IF content = <<>> THEN acc
    ELSE LET content_item == Head(content)
         IN ScanContent(Tail(content),
                IF TypeIs(content_item, "output_text")
                THEN [text |-> Get(content_item, "text", ""),
                      citations |-> _extract_citations(Get(content_item, "annotations", <<>>))]
                ELSE acc)

\* Faulty variant: the pass stops at the first message item.
RECURSIVE ScanMessages_first_wins(_, _)
ScanMessages_first_wins(output_items, acc) ==
    IF output_items = <<>> THEN acc
    ELSE LET item == Head(output_items)
         IN IF TypeIs(item, "message")
            THEN ScanContent(Get(item, "content", <<>>), acc)
            ELSE ScanMessages_first_wins(Tail(output_items), acc)

\* Faulty variant: the two passes are fused, and a web_search_call item
\* discards the text found before it.
RECURSIVE ScanMessages_fused(_, _)
ScanMessages_fused(output_items, acc) ==
    IF output_items = <<>> THEN acc
    ELSE LET item == Head(output_items)
         IN ScanMessages_fused(Tail(output_items),
                IF TypeIs(item, "message")
                THEN ScanContent(Get(item, "content", <<>>), acc)
                ELSE IF TypeIs(item, "web_search_call")
                THEN [text |-> "", citations |-> <<>>]
                ELSE acc)

\* The first pass over output_items: text and citations.
RECURSIVE ScanMessages(_, _)
ScanMessages(output_items, acc) ==
    IF output_items = <<>> THEN acc
    ELSE LET item == Head(output_items)
         IN ScanMessages(Tail(output_items),
                IF TypeIs(item, "message")
                THEN ScanContent(Get(item, "content", <<>>), acc)
                ELSE acc)

\* Faulty variant: the pass stops at the first web_search_call item.
RECURSIVE ScanSearchCalls_first_wins(_, _)
ScanSearchCalls_first_wins(output_items, acc) ==
    IF output_items = <<>> THEN acc
    ELSE LET item == Head(output_items)
         IN IF TypeIs(item, "web_search_call")
            THEN LET action == Get(item, "action", <<>>)
                 IN [search_id |-> Get(item, "id", ""),
                     sources |-> IF DOMAIN action # {}
                                 THEN _extract_sources(action)
                                 ELSE acc.sources]
            ELSE ScanSearchCalls_first_wins(Tail(output_items), acc)

\* The second pass over output_items: search_id and sources.
RECURSIVE ScanSearchCalls(_, _)
ScanSearchCalls(output_items, acc) ==
    IF output_items = <<>> THEN acc
    ELSE LET item == Head(output_items)
         IN ScanSearchCalls(Tail(output_items),
                IF TypeIs(item, "web_search_call")
                THEN LET action == Get(item, "action", <<>>)
                     IN [search_id |-> Get(item, "id", ""),
                         sources |-> IF DOMAIN action # {}
                                     THEN _extract_sources(action)
                                     ELSE acc.sources]
                ELSE acc)

\* Faulty variant: only a missing key counts, an empty list passes.
NoOutput_missing_key_only(response) == ~Has(response, "output")

\* not response.get("output")
NoOutput(response) == ~Has(response, "output") \/ Len(response.output) = 0

\* Faulty variant: a response without any output_text entry is refused.
parse_text_required(response, query, now) ==
    IF NoOutput(response) THEN Raise(Exc("ValueError", "No output in response"))
    ELSE LET output_items == response.output
             first == ScanMessages(output_items, [text |-> "none", citations |-> <<>>])
             second == ScanSearchCalls(output_items, [search_id |-> "", sources |-> <<>>])
         IN IF first.text = "none" THEN Raise(Exc("ValueError", "No text in response"))
            ELSE Return(SearchResult(query, first.text, first.citations, second.sources,
                                     second.search_id, now))

parse(response, query, now) ==
    IF NoOutput(response) THEN Raise(Exc("ValueError", "No output in response"))
    ELSE LET output_items == response.output
             first == ScanMessages(output_items, [text |-> "", citations |-> <<>>])
             second == ScanSearchCalls(output_items, [search_id |-> "", sources |-> <<>>])
         IN Return(SearchResult(query, first.text, first.citations, second.sources,
                                second.search_id, now))

\* Faulty variant: parse consumes the last output item of the mapping it is
\* given.
ResponseAfterParse_pops_output(response) ==
    IF Has(response, "output") /\ Len(response.output) > 0
    THEN [response EXCEPT !.output = SubSeq(response.output, 1, Len(response.output) - 1)]
    ELSE response

\* The response mapping after parse has run on it: parse only reads it
\* (get, iteration) and the parser keeps nothing between calls.
ResponseAfterParse(response) == response

(***************************************************************************)
(* ResponseParser.format_for_display.  The string returned is the list of  *)
(* lines joined by newlines; the model keeps the list.                     *)
(***************************************************************************)
RuleWidth == 80
DisplayLimit == 5

Digit == <<"0", "1", "2", "3", "4", "5", "6", "7", "8", "9">>

\* str(n) of a natural number.
RECURSIVE Str(_)
Str(n) == IF n < 10 THEN Digit[n + 1] ELSE Str(n \div 10) \o Digit[(n % 10) + 1]

\* ch * n
RECURSIVE Repeat(_, _)
Repeat(ch, n) == IF n = 0 THEN "" ELSE ch \o Repeat(ch, n - 1)

\* The text of a run-length encoded query.
RECURSIVE QueryText(_)
QueryText(q) == IF q = <<>> THEN "" ELSE Repeat(Head(q).ch, Head(q).n) \o QueryText(Tail(q))

RECURSIVE CitationLines(_, _)
CitationLines(citations, i) ==
    IF citations = <<>> THEN <<>>
    ELSE <<"  [" \o Str(i) \o "] " \o Head(citations).title,
           "      " \o Head(citations).url>>
         \o CitationLines(Tail(citations), i + 1)

SourceLine(source) == "  - " \o source.url \o " (" \o source.type \o ")"

\* Faulty variant: the "more" line is also written for exactly five sources.
SourceLines_more_at_limit(sources) ==
    IF sources = <<>> THEN <<>>
    ELSE <<"Sources (" \o Str(Len(sources)) \o " total):">>
         \o [k \in 1..(IF Len(sources) < DisplayLimit THEN Len(sources) ELSE DisplayLimit)
                |-> SourceLine(sources[k])]
         \o (IF Len(sources) >= DisplayLimit
             THEN <<"  ... and " \o Str(Len(sources) - DisplayLimit) \o " more">>
             ELSE <<>>)

\* if result.sources: header, result.sources[:5], "... and N more".
SourceLines(sources) ==
    IF sources = <<>> THEN <<>>
    ELSE <<"Sources (" \o Str(Len(sources)) \o " total):">>
         \o [k \in 1..(IF Len(sources) < DisplayLimit THEN Len(sources) ELSE DisplayLimit)
                |-> SourceLine(sources[k])]
         \o (IF Len(sources) > DisplayLimit
             THEN <<"  ... and " \o Str(Len(sources) - DisplayLimit) \o " more">>
             ELSE <<>>)

format_for_display(result) ==
    <<Repeat("=", RuleWidth), "Query: " \o QueryText(result.query), Repeat("=", RuleWidth),
      "", "Result:", result.text, "">>
    \o (IF result.citations # <<>>
        THEN <<"Citations:">> \o CitationLines(result.citations, 1)
        ELSE <<"Citations: None">>)
    \o <<"">>
    \o SourceLines(result.sources)
    \o <<Repeat("=", RuleWidth)>>

(***************************************************************************)
(* SearchService (search_service.py).                                      *)
(***************************************************************************)
\* Faulty variant: the length limit is applied to the trimmed query.
validate_query_trimmed_length(query) ==
    IF ~StrTruthy(query) THEN FALSE
    ELSE IF ~StrTruthy(strip(query)) THEN FALSE
    ELSE IF PyLen(strip(query)) > ServiceMaxQueryLen THEN FALSE
    ELSE TRUE

\* Faulty variant: a query of exactly the maximum length is rejected.
validate_query_off_by_one(query) ==
    IF ~StrTruthy(query) THEN FALSE
    ELSE IF ~StrTruthy(strip(query)) THEN FALSE
    ELSE IF PyLen(query) >= ServiceMaxQueryLen THEN FALSE
    ELSE TRUE

\* Faulty variant: a query of blanks only is let through.
validate_query_blank_allowed(query) ==
    IF ~StrTruthy(query) THEN FALSE
    ELSE IF PyLen(query) > ServiceMaxQueryLen THEN FALSE
    ELSE TRUE

validate_query(query) ==
    IF ~StrTruthy(query) THEN FALSE
    ELSE IF ~StrTruthy(strip(query)) THEN FALSE
    ELSE IF PyLen(query) > ServiceMaxQueryLen THEN FALSE
    ELSE TRUE

\* Faulty variant: nothing is wrapped, every exception is re-raised as it is.
ServiceExcept_reraise_all(e) == e

\* Faulty variant: the "except SearchError: raise" clause is missing, so a
\* gateway SearchError is wrapped like any other exception.
ServiceExcept_wrap_all(e) ==
    LET text == IF e.cls = "SearchError" THEN "[" \o e.code \o "] " \o e.message
                ELSE ExcStr(e)
    IN SearchError("SEARCH_FAILED", "Search operation failed: " \o text,
                   Some([original_error |-> text]))

\* The except clauses of SearchService.search.
ServiceExcept(e) ==
    IF IsInstance(e, "SearchError") THEN e
    ELSE SearchError("SEARCH_FAILED", "Search operation failed: " \o ExcStr(e),
                     Some([original_error |-> ExcStr(e)]))

\* Domain names are sequences of one-character strings, so that prefixes
\* and embedded characters can be tested.
MaxDomains == 20

startswith(s, prefix) == Len(s) >= Len(prefix) /\ SubSeq(s, 1, Len(prefix)) = prefix
Contains(s, ch) == \E i \in 1..Len(s) : s[i] = ch

RECURSIVE Text(_)
Text(s) == IF s = <<>> THEN "" ELSE Head(s) \o Text(Tail(s))

DomainA == <<"a", ".", "c", "o", "m">>
DomainB == <<"b", ".", "c", "o", "m">>

HttpPrefix == <<"h", "t", "t", "p", ":", "/", "/">>
HttpsPrefix == <<"h", "t", "t", "p", "s", ":", "/", "/">>

\* domain.startswith("http://") or domain.startswith("https://")
HasSchemePrefix(domain) == startswith(domain, HttpPrefix) \/ startswith(domain, HttpsPrefix)

\* Faulty variant: an empty entry is let through.
BadFormat_space_only(domain) == Contains(domain, " ")

\* not domain or " " in domain
BadFormat(domain) == domain = <<>> \/ Contains(domain, " ")

\* The body of `for domain in domains`, then the return.
RECURSIVE CheckDomains(_, _)
CheckDomains(rest, domains) ==
    IF rest = <<>> THEN Return(SearchOptions("gpt-4o-mini", Some(domains), None, "low"))
    ELSE LET domain == Head(rest)
         IN IF HasSchemePrefix(domain)
            THEN Raise(Exc("ValueError", "Invalid domain '" \o Text(domain)
                                         \o "': remove http:// or https:// prefix"))
            ELSE IF BadFormat(domain)
            THEN Raise(Exc("ValueError", "Invalid domain format: '" \o Text(domain) \o "'"))
            ELSE CheckDomains(Tail(rest), domains)

TooManyDomains == Exc("ValueError", "Too many domains (max 20 allowed)")

\* Faulty variant: the entries are examined before the list is counted.
apply_domain_filters_entries_first(domains) ==
    LET r == CheckDomains(domains, domains)
    IN IF r.kind = "raise" THEN r
       ELSE IF Len(domains) > MaxDomains THEN Raise(TooManyDomains)
       ELSE r

apply_domain_filters(domains) ==
    IF Len(domains) > MaxDomains THEN Raise(TooManyDomains)
    ELSE CheckDomains(domains, domains)

(***************************************************************************)
(* Inputs.                                                                 *)
(***************************************************************************)
\* Queries a caller may pass to SearchService.search.
Queries == Strings

\* The optional `options` argument.
OptionsArgs ==
    {None,
     Some(DefaultSearchOptions),
     Some(SearchOptions("gpt-5", Some(<<DomainA, DomainB>>),
                        Some([country |-> "GB"]), "high")),
     Some(SearchOptions("gpt-4o-mini", Some(<<DomainA, HttpsPrefix \o <<"x">>>>),
                        None, "low"))}

\* Provider response objects.
PAnn1 ==
    Obj([type |-> "url_citation", url |-> "https://a.com/1", title |-> "A1",
         start_index |-> 5, end_index |-> 9])
PAnnNoTitle ==
    Obj([type |-> "url_citation", url |-> "https://b.com/2", start_index |-> 1,
         end_index |-> 3])
PText1 == Obj([type |-> "output_text", text |-> "A", annotations |-> List(<<PAnn1>>)])
PText2 == Obj([type |-> "output_text", text |-> "B"])
PTextDict ==
    Dict([type |-> "output_text", text |-> "C",
          annotations |-> <<[type |-> "url_citation", url |-> "https://c.com/3"]>>])
PTextBad == Obj([type |-> "output_text", text |-> "D", annotations |-> List(<<PAnnNoTitle>>)])
PSource1 == Obj([url |-> "https://a.com/1", type |-> "web"])

ProviderItems ==
    {Obj([type |-> "message", id |-> "msg_1", status |-> "completed", role |-> "assistant",
          content |-> List(<<PText1>>)]),
     Obj([type |-> "message", content |-> List(<<PText2, PTextDict>>)]),
     Obj([type |-> "message", id |-> "msg_3"]),
     Obj([type |-> "message", content |-> List(<<PTextBad>>)]),
     Obj([type |-> "web_search_call", id |-> "ws_1", status |-> "completed",
          action |-> Obj([type |-> "search", query |-> "q", sources |-> List(<<PSource1>>)])]),
     Obj([type |-> "web_search_call", action |-> Obj([type |-> "search"])]),
     Obj([type |-> "web_search_call", id |-> "ws_2", action |-> Obj([sources |-> PyNone])]),
     Obj([type |-> "web_search_call", id |-> "ws_3"]),
     Obj([type |-> "reasoning", id |-> "rs_1"]),
     Dict([type |-> "message"]),
     Obj([id |-> "x_1"])}

ProviderResponses ==
    {Obj([id |-> "resp_1", model |-> "gpt-4o-mini", created |-> 1,
          output |-> List(items)]) :
        items \in UNION {[1..k -> ProviderItems] : k \in 0..MaxProviderItems}}
    \cup {Obj([id |-> "resp_2"])}

ProviderExceptions ==
    {Exc("AuthenticationError", "Invalid API key"),
     Exc("RateLimitError", "Rate limit exceeded"),
     Exc("APIConnectionError", "Connection error."),
     Exc("APIError", "Internal server error"),
     Exc("TimeoutError", "timed out")}

\* What the one provider call can do.
ProviderBehaviours ==
    {ProviderRaises(e) : e \in ProviderExceptions}
    \cup {ProviderReturns(r) : r \in ProviderResponses}

\* Normalized responses handed to ResponseParser.parse directly.
Ann1 ==
    [type |-> "url_citation", url |-> "https://a.com/1", title |-> "A1",
     start_index |-> 5, end_index |-> 9]
Ann2 == [type |-> "url_citation", url |-> "https://b.com/2", start_index |-> 7]
Ann3 == [type |-> "file_citation", url |-> "https://f.com/3", title |-> "F3"]
Text1 == [type |-> "output_text", text |-> "A", annotations |-> <<Ann1>>]
Text2 == [type |-> "output_text", text |-> "B", annotations |-> <<Ann3, Ann2>>]
Text3 == [type |-> "output_text"]
Refusal == [type |-> "refusal", refusal |-> "no"]
Src1 == [url |-> "https://a.com/1", type |-> "web"]
Src2 == [url |-> "https://w.com/2"]

MessageItems ==
    {[type |-> "message", content |-> <<Text1>>],
     [type |-> "message", content |-> <<Text2, Refusal>>],
     [type |-> "message", content |-> <<Text1, Text2>>],
     [type |-> "message", content |-> <<Refusal>>],
     [type |-> "message", content |-> <<Text3>>],
     [type |-> "message", role |-> "assistant"]}

SearchCallItems ==
    {[type |-> "web_search_call", id |-> "ws_1", action |-> [sources |-> <<Src1>>]],
     [type |-> "web_search_call", id |-> "ws_2",
      action |-> [type |-> "search", sources |-> <<Src2, Src1>>]],
     [type |-> "web_search_call", status |-> "completed"],
     [type |-> "web_search_call", id |-> "ws_4", action |-> <<>>],
     [type |-> "web_search_call", id |-> "ws_5", action |-> [type |-> "search"]]}

OtherItems == {[type |-> "reasoning", id |-> "rs_1"], [id |-> "x_1"]}

OutputItems == MessageItems \cup SearchCallItems \cup OtherItems

NormalizedResponses ==
    {[id |-> "resp_1", model |-> "gpt-4o-mini", created |-> 1, output |-> items] :
        items \in UNION {[1..k -> OutputItems] : k \in 0..MaxOutputItems}}
    \cup {[invalid |-> "structure"]}

ParseQueries == {<<>>, <<[ch |-> "a", n |-> 1]>>}

\* datetime.now()
Timestamps == 1..MaxClock

\* Inputs of the concurrent invocations and of direct gateway calls.
ConcQueries ==
    {<<>>, <<[ch |-> "a", n |-> 1]>>, <<[ch |-> " ", n |-> 1], [ch |-> "a", n |-> 1]>>}

ConcOptionsArgs ==
    {None, Some(SearchOptions("gpt-5", Some(<<DomainA, DomainB>>), None, "high"))}

ConcBehaviours ==
    {ProviderRaises(Exc("AuthenticationError", "Invalid API key")),
     ProviderRaises(Exc("TimeoutError", "timed out")),
     ProviderReturns(Obj([id |-> "resp_2"])),
     ProviderReturns(Obj([id |-> "resp_0", output |-> List(<<>>)])),
     ProviderReturns(Obj([id |-> "resp_1", model |-> "gpt-4o-mini", created |-> 1,
                          output |-> List(<<
                              Obj([type |-> "web_search_call", id |-> "ws_1",
                                   action |-> Obj([type |-> "search",
                                                   sources |-> List(<<PSource1>>)])]),
                              Obj([type |-> "message", content |-> List(<<PText1>>)])>>)]))}

\* Queries handed to WebSearchClient.search directly: empty, blank, of
\* length 1, 5000 and 5001, and blank-padded to 5001.
ClientQueries ==
    {<<>>,
     <<[ch |-> " ", n |-> 1]>>,
     <<[ch |-> "a", n |-> 1]>>,
     <<[ch |-> "a", n |-> 5000]>>,
     <<[ch |-> "a", n |-> 5001]>>,
     <<[ch |-> "a", n |-> 1], [ch |-> " ", n |-> 5000]>>}

\* Results handed to format_for_display: no, one and two citations, and
\* from none up to MaxSources sources with distinct urls.
DisplayCitations ==
    {<<>>, <<Citation("https://a.com/1", "A1", 5, 9)>>,
     <<Citation("https://b.com/2", "", 7, 0), Citation("https://a.com/1", "A1", 5, 9)>>}

DisplaySources ==
    {[k \in 1..n |-> Source("https://s.com/" \o Str(k), IF k = 2 THEN "news" ELSE "web")] :
        n \in 0..MaxSources}

DisplayResults ==
    {SearchResult(<<[ch |-> "a", n |-> 1]>>, text, citations, sources, "ws_1", 1) :
        text \in {"", "Citations: None"}, citations \in DisplayCitations,
        sources \in DisplaySources}

\* SearchError values a caller builds and prints.
ErrorCodes == {"TEST_ERROR", "RATE_LIMIT_ERROR", ""}
ErrorMessages == {"Test message", ""}
ErrorDetails == {None, Some(<<>>), Some([original_error |-> "timed out"]),
                 Some([hint |-> ""])}

\* The api_key argument of the constructors and the value of the
\* OPENAI_API_KEY environment variable: absent, empty or a key.
ApiKeyArgs == {None, Some(""), Some("sk-arg-0123456789abcdef")}
EnvKeys == {None, Some(""), Some("sk-env-0123456789abcdef")}

\* Domain lists handed to apply_domain_filters: every short list over
\* Domains, and lists at and just past the limit that are plain except
\* for one entry at either end.
PlainDomain == <<"a", ".", "c", "o">>

Domains ==
    {<<>>, PlainDomain, <<"b">>,
     HttpPrefix \o <<"x">>, HttpsPrefix \o <<"x">>,
     <<"a", " ", "b">>, <<"a", "\t", "b">>,
     <<" ">> \o HttpPrefix, HttpPrefix \o <<" ">>}

DomainLists ==
    UNION {[1..n -> Domains] : n \in 0..MaxDomainListLen}
    \cup UNION {{[i \in 1..n |-> IF i = k THEN d ELSE PlainDomain] :
                     k \in {1, n}, d \in Domains} : n \in {MaxDomains, MaxDomains + 1}}

\* Arguments handed to _construct_payload directly: set, unset and empty
\* domain lists and location mappings, every effort level.
PayloadQueries ==
    {<<[ch |-> "a", n |-> 1]>>,
     <<[ch |-> " ", n |-> 1], [ch |-> "a", n |-> 1], [ch |-> " ", n |-> 1]>>}

PayloadOptions ==
    {SearchOptions(model, allowed_domains, user_location, reasoning_effort) :
        model \in {"gpt-4o-mini", "gpt-5"},
        allowed_domains \in {None, Some(<<>>), Some(<<DomainA, DomainB>>),
                             Some(<<DomainB, DomainA>>)},
        user_location \in {None, Some(<<>>), Some([country |-> "GB"]),
                           Some([country |-> "US", city |-> "NYC"])},
        reasoning_effort \in {"low", "medium", "high"}}

(***************************************************************************)
(* The state machine.                                                      *)
(***************************************************************************)
NoCall == [op |-> "none"]

\* A WebSearchClient exists, on its own or inside a SearchService.
HasClient == gateway # None
HasService == gateway # None /\ Unwrap(gateway).owner = "SearchService"

Init ==
    /\ frames = <<>>
    /\ gateway = None
    /\ pc = "idle"
    /\ call = NoCall
    /\ options = None
    /\ provider = None
    /\ clientOutcome = NoOutcome
    /\ raw_response = None
    /\ providerCalls = <<>>
    /\ parserCalls = <<>>
    /\ parserOutcome = NoOutcome
    /\ outcome = NoOutcome

\* SearchService(api_key): the check of the argument, then the gateway and
\* the parser are built.
ConstructService ==
    /\ pc = "idle"
    /\ gateway = None
    /\ \E api_key \in ApiKeyArgs, env \in EnvKeys :
          LET r == SearchService_init(api_key, env)
          IN /\ call' = [op |-> "SearchService", api_key |-> api_key, env |-> env]
             /\ gateway' = IF r.kind = "return"
                           THEN Some([owner |-> "SearchService", api_key |-> r.value])
                           ELSE None
             /\ outcome' = IF r.kind = "return" THEN Return("SearchService") ELSE r
    /\ UNCHANGED frames
    /\ pc' = "done"
    /\ UNCHANGED <<options, provider, clientOutcome, raw_response, providerCalls,
                   parserCalls, parserOutcome>>

\* WebSearchClient(api_key) built on its own.
ConstructClient ==
    /\ pc = "idle"
    /\ gateway = None
    /\ \E api_key \in ApiKeyArgs, env \in EnvKeys :
          LET r == WebSearchClient_init(api_key, env)
          IN /\ call' = [op |-> "WebSearchClient", api_key |-> api_key, env |-> env]
             /\ gateway' = IF r.kind = "return"
                           THEN Some([owner |-> "WebSearchClient", api_key |-> r.value])
                           ELSE None
             /\ outcome' = IF r.kind = "return" THEN Return("WebSearchClient") ELSE r
    /\ UNCHANGED frames
    /\ pc' = "done"
    /\ UNCHANGED <<options, provider, clientOutcome, raw_response, providerCalls,
                   parserCalls, parserOutcome>>

\* SearchService.search, up to the gateway call: validate the query and
\* default the options.
ServiceSearchBegin ==
    /\ pc = "idle"
    /\ HasService
    /\ UNCHANGED <<gateway, frames>>
    /\ \E query \in Queries, optionsArg \in OptionsArgs :
          /\ call' = [op |-> "SearchService.search", query |-> query,
                      options |-> optionsArg]
          /\ IF ~validate_query(query)
             THEN /\ outcome' = Raise(Exc("ValueError",
                          "Invalid query: must be non-empty and under 5000 characters"))
                  /\ pc' = "done"
                  /\ UNCHANGED options
             ELSE /\ options' = Some(IF IsNone(optionsArg) THEN DefaultSearchOptions
                                     ELSE Unwrap(optionsArg))
                  /\ pc' = "validated"
                  /\ UNCHANGED outcome
    /\ UNCHANGED <<provider, clientOutcome, raw_response, providerCalls, parserCalls,
                   parserOutcome>>

\* raw_response = self.client.search(query, options), with the provider
\* behaving as `p`; an exception goes through the except clauses.
ServiceGatewayCall ==
    /\ pc = "validated"
    /\ UNCHANGED <<gateway, frames>>
    /\ \E p \in ProviderBehaviours :
          LET r == WebSearchClient_search(call.query, options, p)
          IN /\ provider' = IF r.calls = <<>> THEN None ELSE Some(p)
             /\ providerCalls' = providerCalls \o r.calls
             /\ clientOutcome' = r.outcome
             /\ IF r.outcome.kind = "return"
                THEN /\ raw_response' = Some(r.outcome.value)
                     /\ pc' = "client_returned"
                     /\ UNCHANGED outcome
                ELSE /\ outcome' = Raise(ServiceExcept(r.outcome.exc))
                     /\ pc' = "done"
                     /\ UNCHANGED raw_response
    /\ UNCHANGED <<call, options, parserCalls, parserOutcome>>

\* Faulty variant: the parser is handed the trimmed query.
ServiceParse_trimmed_query ==
    /\ pc = "client_returned"
    /\ UNCHANGED <<gateway, frames>>
    /\ \E now \in Timestamps :
          LET r == parse(Unwrap(raw_response), strip(call.query), now)
          IN /\ parserCalls' = Append(parserCalls,
                                      [response |-> Unwrap(raw_response),
                                       query |-> strip(call.query)])
             /\ parserOutcome' = r
             /\ outcome' = IF r.kind = "raise" THEN Raise(ServiceExcept(r.exc)) ELSE r
    /\ pc' = "done"
    /\ UNCHANGED <<call, options, provider, clientOutcome, raw_response, providerCalls>>

\* result = self.parser.parse(raw_response, query); return result.
ServiceParse ==
    /\ pc = "client_returned"
    /\ UNCHANGED <<gateway, frames>>
    /\ \E now \in Timestamps :
          LET r == parse(Unwrap(raw_response), call.query, now)
          IN /\ parserCalls' = Append(parserCalls,
                                      [response |-> Unwrap(raw_response),
                                       query |-> call.query])
             /\ parserOutcome' = r
             /\ outcome' = IF r.kind = "raise" THEN Raise(ServiceExcept(r.exc)) ELSE r
    /\ pc' = "done"
    /\ UNCHANGED <<call, options, provider, clientOutcome, raw_response, providerCalls>>

\* ResponseParser.parse called on its own, on the parser the service built
\* (self.parser). The caller keeps the response mapping as parse left it.
ParserParse ==
    /\ pc = "idle"
    /\ HasService
    /\ UNCHANGED <<gateway, frames>>
    /\ \E response \in NormalizedResponses, query \in ParseQueries, now \in Timestamps :
          /\ call' = [op |-> "ResponseParser.parse",
                      response |-> ResponseAfterParse(response), query |-> query]
          /\ parserCalls' = <<[response |-> response, query |-> query]>>
          /\ parserOutcome' = parse(response, query, now)
          /\ outcome' = parse(response, query, now)
    /\ pc' = "done"
    /\ UNCHANGED <<options, provider, clientOutcome, raw_response, providerCalls>>

\* datetime.now() at a second parse: the clock has advanced by one tick
\* since the first result was stamped.
LaterReadings ==
    IF parserOutcome.kind = "return" THEN {parserOutcome.value.timestamp + 1}
    ELSE Timestamps

\* The caller parses the mapping it holds a second time, with the same
\* query, at a later reading of the clock; parserOutcome keeps what the
\* first parse gave, outcome takes what the second gives.
ParserParseAgain ==
    /\ pc = "done"
    /\ call.op = "ResponseParser.parse"
    /\ Len(parserCalls) = 1
    /\ UNCHANGED <<gateway, frames>>
    /\ \E now \in LaterReadings :
          /\ parserCalls' = Append(parserCalls,
                                   [response |-> call.response, query |-> call.query])
          /\ outcome' = parse(call.response, call.query, now)
          /\ call' = [call EXCEPT !.response = ResponseAfterParse(call.response)]
    /\ pc' = "done"
    /\ UNCHANGED <<options, provider, clientOutcome, raw_response, providerCalls,
                   parserOutcome>>

\* WebSearchClient._construct_payload called on its own.
ConstructPayload ==
    /\ pc = "idle"
    /\ HasClient
    /\ UNCHANGED <<gateway, frames>>
    /\ \E query \in PayloadQueries, opts \in PayloadOptions :
          /\ call' = [op |-> "_construct_payload", query |-> query, options |-> opts]
          /\ outcome' = Return(_construct_payload(query, opts))
    /\ pc' = "done"
    /\ UNCHANGED <<options, provider, clientOutcome, raw_response, providerCalls,
                   parserCalls, parserOutcome>>

\* SearchService.apply_domain_filters.
ApplyDomainFilters ==
    /\ pc = "idle"
    /\ HasService
    /\ UNCHANGED <<gateway, frames>>
    /\ \E domains \in DomainLists :
          /\ call' = [op |-> "apply_domain_filters", domains |-> domains]
          /\ outcome' = apply_domain_filters(domains)
    /\ pc' = "done"
    /\ UNCHANGED <<options, provider, clientOutcome, raw_response, providerCalls,
                   parserCalls, parserOutcome>>

\* WebSearchClient.search called on its own, the provider behaving as `p`.
ClientSearch ==
    /\ pc = "idle"
    /\ HasClient
    /\ UNCHANGED <<gateway, frames>>
    /\ \E query \in ClientQueries, optionsArg \in ConcOptionsArgs, p \in ConcBehaviours :
          LET r == WebSearchClient_search(query, optionsArg, p)
          IN /\ call' = [op |-> "WebSearchClient.search", query |-> query,
                         options |-> optionsArg]
             /\ provider' = IF r.calls = <<>> THEN None ELSE Some(p)
             /\ providerCalls' = r.calls
             /\ clientOutcome' = r.outcome
             /\ outcome' = r.outcome
    /\ pc' = "done"
    /\ UNCHANGED <<options, raw_response, parserCalls, parserOutcome>>

\* e = SearchError(code, message, details); str(e).  The call record
\* keeps the error as it is after the two steps.
StringifyError ==
    /\ pc = "idle"
    /\ HasService
    /\ UNCHANGED <<gateway, frames>>
    /\ \E code \in ErrorCodes, message \in ErrorMessages, details \in ErrorDetails :
          LET e == SearchError(code, message, details)
          IN /\ call' = [op |-> "SearchError.__str__", code |-> code,
                         message |-> message, details |-> details, error |-> e]
             /\ outcome' = Return(SearchError_str(e))
    /\ pc' = "done"
    /\ UNCHANGED <<options, provider, clientOutcome, raw_response, providerCalls,
                   parserCalls, parserOutcome>>

\* ResponseParser.format_for_display.
FormatForDisplay ==
    /\ pc = "idle"
    /\ HasService
    /\ UNCHANGED <<gateway, frames>>
    /\ \E result \in DisplayResults :
          /\ call' = [op |-> "format_for_display", result |-> result]
          /\ outcome' = Return(format_for_display(result))
    /\ pc' = "done"
    /\ UNCHANGED <<options, provider, clientOutcome, raw_response, providerCalls,
                   parserCalls, parserOutcome>>

\* The caller takes the outcome; the next invocation starts afresh.
Finish ==
    /\ pc = "done"
    /\ UNCHANGED <<gateway, frames>>
    /\ pc' = "idle"
    /\ call' = NoCall
    /\ options' = None
    /\ provider' = None
    /\ clientOutcome' = NoOutcome
    /\ raw_response' = None
    /\ providerCalls' = <<>>
    /\ parserCalls' = <<>>
    /\ parserOutcome' = NoOutcome
    /\ outcome' = NoOutcome

Next ==
    \/ ConstructService
    \/ ConstructClient
    \/ ServiceSearchBegin
    \/ ServiceGatewayCall
    \/ ServiceParse
    \/ ParserParse
    \/ ParserParseAgain
    \/ ConstructPayload
    \/ ApplyDomainFilters
    \/ ClientSearch
    \/ StringifyError
    \/ FormatForDisplay
    \/ Finish

Spec == Init /\ [][Next]_vars

(***************************************************************************)
(* Concurrent invocations of SearchService.search on one service.  Each    *)
(* invocation has its own frame of local variables (query, options,        *)
(* raw_response, result); the service object holds only the gateway and    *)
(* the parser, which no step assigns.  A step of one invocation is one of   *)
(* the three stages of search; the steps of different invocations           *)
(* interleave freely.                                                       *)
(***************************************************************************)
Invocations == 1..MaxInvocations

IdleFrame ==
    [pc |-> "idle", query |-> <<>>, optionsArg |-> None, options |-> None,
     behaviour |-> None, raw_response |-> None, now |-> None, outcome |-> NoOutcome]

\* Faulty variant: the locals are kept in one slot on the service object,
\* so every invocation reads what invocation 1 wrote.
Local_on_service(fs, i, name) == fs[1][name]

\* The local variable `name` of invocation i.
Local(fs, i, name) == fs[i][name]

\* What one invocation gives when it runs alone: validate, gateway, parse.
ServiceSearchAlone(query, optionsArg, behaviour, now) ==
    IF ~validate_query(query)
    THEN Raise(Exc("ValueError",
                   "Invalid query: must be non-empty and under 5000 characters"))
    ELSE LET opts == IF IsNone(optionsArg) THEN DefaultSearchOptions
                     ELSE Unwrap(optionsArg)
             r == WebSearchClient_search(query, Some(opts), Unwrap(behaviour))
         IN IF r.outcome.kind = "raise" THEN Raise(ServiceExcept(r.outcome.exc))
            ELSE LET result == parse(r.outcome.value, query, Unwrap(now))
                 IN IF result.kind = "raise" THEN Raise(ServiceExcept(result.exc))
                    ELSE result

InitConcurrent ==
    /\ frames = [i \in Invocations |-> IdleFrame]
    /\ gateway = Some([owner |-> "SearchService", api_key |-> "sk-arg-0123456789abcdef"])
    /\ pc = "idle"
    /\ call = NoCall
    /\ options = None
    /\ provider = None
    /\ clientOutcome = NoOutcome
    /\ raw_response = None
    /\ providerCalls = <<>>
    /\ parserCalls = <<>>
    /\ parserOutcome = NoOutcome
    /\ outcome = NoOutcome

SequentialVars ==
    <<gateway, pc, call, options, provider, clientOutcome, raw_response,
      providerCalls, parserCalls, parserOutcome, outcome>>

\* Invocation i enters search: validate the query, default the options.
ConcBegin ==
    /\ \E i \in Invocations :
          /\ frames[i].pc = "idle"
          /\ \E query \in ConcQueries, optionsArg \in ConcOptionsArgs :
                frames' = [frames EXCEPT ![i] =
                    IF ~validate_query(query)
                    THEN [@ EXCEPT !.pc = "done", !.query = query,
                                   !.optionsArg = optionsArg,
                                   !.outcome = Raise(Exc("ValueError",
                                       "Invalid query: must be non-empty and under 5000 characters"))]
                    ELSE [@ EXCEPT !.pc = "validated", !.query = query,
                                   !.optionsArg = optionsArg,
                                   !.options = Some(IF IsNone(optionsArg)
                                                    THEN DefaultSearchOptions
                                                    ELSE Unwrap(optionsArg))]]
    /\ UNCHANGED SequentialVars

\* Invocation i calls the gateway with its own query and options.
ConcGatewayCall ==
    /\ \E i \in Invocations :
          /\ frames[i].pc = "validated"
          /\ \E behaviour \in ConcBehaviours :
                LET r == WebSearchClient_search(Local(frames, i, "query"),
                                                Local(frames, i, "options"), behaviour)
                IN frames' = [frames EXCEPT ![i] =
                       IF r.outcome.kind = "return"
                       THEN [@ EXCEPT !.pc = "client_returned",
                                      !.behaviour = Some(behaviour),
                                      !.raw_response = Some(r.outcome.value)]
                       ELSE [@ EXCEPT !.pc = "done", !.behaviour = Some(behaviour),
                                      !.outcome = Raise(ServiceExcept(r.outcome.exc))]]
    /\ UNCHANGED SequentialVars

\* Invocation i parses the response its own gateway call returned.
ConcParse ==
    /\ \E i \in Invocations :
          /\ frames[i].pc = "client_returned"
          /\ \E now \in Timestamps :
                LET r == parse(Unwrap(Local(frames, i, "raw_response")),
                               Local(frames, i, "query"), now)
                IN frames' = [frames EXCEPT ![i] =
                       [@ EXCEPT !.pc = "done", !.now = Some(now),
                                 !.outcome = IF r.kind = "raise"
                                             THEN Raise(ServiceExcept(r.exc)) ELSE r]]
    /\ UNCHANGED SequentialVars

NextConcurrent ==
    \/ ConcBegin
    \/ ConcGatewayCall
    \/ ConcParse

SpecConcurrent == InitConcurrent /\ [][NextConcurrent]_vars

(***************************************************************************)
(* Properties.                                                             *)
(***************************************************************************)
ServiceCall == call.op = "SearchService.search"
ServiceDone == ServiceCall /\ pc = "done"

\* The query is empty or consists of whitespace only.
QueryIsBlank(q) == \A i \in 1..Len(q) : IsSpace(q[i].ch)

RaisedValueError == outcome.kind = "raise" /\ outcome.exc.cls = "ValueError"
RaisedSearchError == outcome.kind = "raise" /\ outcome.exc.cls = "SearchError"

DefaultOptionsGiven == call.options \in {None, Some(DefaultSearchOptions)}

\* The gateway call returned a normalized response with a non-empty output.
GatewayReturnedOutput ==
    /\ clientOutcome.kind = "return"
    /\ Has(clientOutcome.value, "output")
    /\ Len(clientOutcome.value.output) > 0

\* C1: for every query that is empty, all-whitespace or longer than 5000
\* characters, SearchService.search raises ValueError (not SearchError) and
\* makes no provider call.
C1_InvalidQueryRejected ==
    (ServiceCall /\ (QueryIsBlank(call.query) \/ PyLen(call.query) > 5000))
        => /\ pc = "done"
           /\ RaisedValueError
           /\ providerCalls = <<>>

\* A query over 5000 characters only because of its surrounding whitespace
\* has been rejected.
C1_Witness ==
    /\ ServiceDone
    /\ PyLen(call.query) > 5000
    /\ PyLen(strip(call.query)) \in 1..5000
    /\ RaisedValueError
    /\ providerCalls = <<>>

\* C2 as stated: every query whose trimmed form has 1..5000 characters (its
\* untrimmed length may exceed 5000) is accepted and, with default options
\* and a gateway response with non-empty output, search returns a
\* SearchResult whose query equals the input exactly.
C2_Original ==
    (ServiceCall /\ PyLen(strip(call.query)) \in 1..5000 /\ DefaultOptionsGiven)
        => /\ ~RaisedValueError
           /\ (pc = "done" /\ GatewayReturnedOutput)
                 => (outcome.kind = "return" /\ outcome.value.query = call.query)

\* C2 amended: every query that is non-empty after trimming and whose
\* untrimmed length is at most 5000 characters is accepted and, with default
\* options and a gateway response with non-empty output, search returns a
\* SearchResult whose query equals the input exactly (untrimmed).
C2_ValidQueryEchoed ==
    (ServiceCall /\ ~QueryIsBlank(call.query) /\ PyLen(call.query) <= 5000
                 /\ DefaultOptionsGiven)
        => /\ ~RaisedValueError
           /\ (pc = "done" /\ GatewayReturnedOutput)
                 => (outcome.kind = "return" /\ outcome.value.query = call.query)

\* A query with surrounding whitespace came back untrimmed in the result.
C2_Witness ==
    /\ ServiceDone
    /\ DefaultOptionsGiven
    /\ GatewayReturnedOutput
    /\ strip(call.query) # call.query
    /\ outcome.kind = "return"
    /\ outcome.value.query = call.query

\* C3: every exception that escapes SearchService.search is a ValueError
\* raised by the up-front query check or a SearchError; a non-SearchError
\* exception raised by the gateway call or by the parser is re-raised as
\* SearchError SEARCH_FAILED with details.original_error its message.
WrappedAs(e) ==
    /\ RaisedSearchError
    /\ outcome.exc.code = "SEARCH_FAILED"
    /\ outcome.exc.details = Some([original_error |-> e.msg])

C3_OneErrorFamily ==
    (ServiceDone /\ outcome.kind = "raise")
        => /\ RaisedValueError \/ RaisedSearchError
           /\ RaisedValueError
                 => (clientOutcome = NoOutcome /\ parserOutcome = NoOutcome
                     /\ providerCalls = <<>>)
           /\ (clientOutcome.kind = "raise" /\ clientOutcome.exc.cls # "SearchError")
                 => WrappedAs(clientOutcome.exc)
           /\ (parserOutcome.kind = "raise" /\ parserOutcome.exc.cls # "SearchError")
                 => WrappedAs(parserOutcome.exc)

\* The parser's structural error has been wrapped.
C3_Witness ==
    /\ ServiceDone
    /\ parserOutcome = Raise(Exc("ValueError", "No output in response"))
    /\ WrappedAs(parserOutcome.exc)

\* C4: a SearchError raised by the gateway reaches the caller of
\* SearchService.search unchanged (code, message, details) and is never
\* converted into SEARCH_FAILED.
C4_GatewayErrorUnchanged ==
    (ServiceDone /\ clientOutcome.kind = "raise" /\ clientOutcome.exc.cls = "SearchError")
        => /\ outcome = clientOutcome
           /\ outcome.exc.code \in {"AUTHENTICATION_ERROR", "RATE_LIMIT_ERROR",
                                    "API_ERROR", "UNKNOWN_ERROR"}

\* An authentication failure has reached the caller.
C4_Witness ==
    /\ ServiceDone
    /\ clientOutcome.kind = "raise"
    /\ clientOutcome.exc.cls = "SearchError"
    /\ clientOutcome.exc.code = "AUTHENTICATION_ERROR"
    /\ outcome = clientOutcome

\* C5: WebSearchClient.search maps each provider failure to exactly one
\* code: authentication rejected -> AUTHENTICATION_ERROR, rate limit ->
\* RATE_LIMIT_ERROR, any other reported API failure -> API_ERROR, any other
\* failure, one raised while normalizing the response included ->
\* UNKNOWN_ERROR; every mapped SearchError carries the failure's text in
\* details.original_error.
ExpectedCode(cls) ==
    CASE cls = "AuthenticationError" -> "AUTHENTICATION_ERROR"
      [] cls = "RateLimitError" -> "RATE_LIMIT_ERROR"
      [] cls \in {"APIError", "APIConnectionError"} -> "API_ERROR"
      [] OTHER -> "UNKNOWN_ERROR"

GatewayRaised(code, text) ==
    /\ clientOutcome.kind = "raise"
    /\ clientOutcome.exc.cls = "SearchError"
    /\ clientOutcome.exc.code = code
    /\ clientOutcome.exc.details = Some([original_error |-> text])

C5_ErrorMapping ==
    ~IsNone(provider)
        => LET p == Unwrap(provider)
           IN /\ p.kind = "raise"
                    => GatewayRaised(ExpectedCode(p.exc.cls), p.exc.msg)
              /\ (p.kind = "return" /\ ~_response_to_dict(p.response).ok)
                    => GatewayRaised("UNKNOWN_ERROR", _response_to_dict(p.response).exc.msg)
              /\ (p.kind = "return" /\ _response_to_dict(p.response).ok)
                    => clientOutcome.kind = "return"

\* An authentication failure, a subclass of the generic API failure, has
\* been mapped to its own code.
C5_Witness ==
    /\ provider = Some(ProviderRaises(Exc("AuthenticationError", "Invalid API key")))
    /\ GatewayRaised("AUTHENTICATION_ERROR", "Invalid API key")

\* C6: each search invocation makes at most one provider call: exactly one
\* when the query passes validation, whether that call succeeds or fails,
\* and none otherwise.
C6_OneProviderCall ==
    /\ Len(providerCalls) <= 1
    /\ ServiceDone
          => Len(providerCalls) =
                 (IF ~QueryIsBlank(call.query) /\ PyLen(call.query) <= 5000 THEN 1 ELSE 0)
    /\ (ServiceCall /\ clientOutcome # NoOutcome) => Len(providerCalls) = 1
    /\ (call.op = "WebSearchClient.search" /\ pc = "done")
          => Len(providerCalls) =
                 (IF ~QueryIsBlank(call.query) /\ PyLen(call.query) <= 5000 THEN 1 ELSE 0)

\* A rate-limited call has ended the invocation after a single attempt.
C6_Witness ==
    /\ ServiceDone
    /\ provider = Some(ProviderRaises(Exc("RateLimitError", "Rate limit exceeded")))
    /\ clientOutcome.kind = "raise"
    /\ Len(providerCalls) = 1

\* C7: ResponseParser.parse raises the structural error "No output in
\* response" exactly when the normalized response has no output key or its
\* output list is empty, and then produces no SearchResult.
ParserCalled == parserCalls # <<>>
ParserResponse == parserCalls[1].response
ParserQuery == parserCalls[1].query
ParserOutput == ParserResponse.output

C7_NoOutputError ==
    ParserCalled
        => /\ parserOutcome.kind \in {"raise", "return"}
           /\ (parserOutcome = Raise(Exc("ValueError", "No output in response")))
                 <=> ("output" \notin DOMAIN ParserResponse \/ ParserOutput = <<>>)
           /\ ("output" \notin DOMAIN ParserResponse \/ ParserOutput = <<>>)
                 => parserOutcome.kind = "raise"

\* A response with an output key holding an empty list has been refused.
C7_Witness ==
    /\ ParserCalled
    /\ "output" \in DOMAIN ParserResponse
    /\ ParserOutput = <<>>
    /\ parserOutcome = Raise(Exc("ValueError", "No output in response"))

\* The output_text entries of a response's message items, as positions
\* <<item index, content index>>, and the web_search_call items.
ItemContent(item) == Get(item, "content", <<>>)

TextPositions(output) ==
    UNION {{<<i, j>> : j \in {k \in 1..Len(ItemContent(output[i])) :
                                 TypeIs(ItemContent(output[i])[k], "output_text")}} :
           i \in {m \in 1..Len(output) : TypeIs(output[m], "message")}}

Before(p, q) == p[1] < q[1] \/ (p[1] = q[1] /\ p[2] <= q[2])
FirstPosition(S) == CHOOSE p \in S : \A q \in S : Before(p, q)
LastPosition(S) == CHOOSE p \in S : \A q \in S : Before(q, p)

EntryAt(output, p) == ItemContent(output[p[1]])[p[2]]

\* The result's text and citations are those of the entry at position p.
TextTakenFrom(result, output, p) ==
    /\ result.text = Get(EntryAt(output, p), "text", "")
    /\ result.citations = _extract_citations(Get(EntryAt(output, p), "annotations", <<>>))

SearchCallIndices(output) ==
    {i \in 1..Len(output) : TypeIs(output[i], "web_search_call")}

\* The web_search_call items that carry a non-empty action.
ActionIndices(output) ==
    {i \in SearchCallIndices(output) :
        Has(output[i], "action") /\ DOMAIN output[i].action # {}}

Min(S) == CHOOSE i \in S : \A j \in S : i <= j
Max(S) == CHOOSE i \in S : \A j \in S : j <= i

ParserReturned == ParserCalled /\ parserOutcome.kind = "return"

\* C8 as stated: the result text and citations come from the first message
\* item's first output_text entry; every later one is ignored.
C8_Original ==
    (ParserReturned /\ TextPositions(ParserOutput) # {})
        => TextTakenFrom(parserOutcome.value, ParserOutput,
                         FirstPosition(TextPositions(ParserOutput)))

\* C8 amended: when the output list holds several message items, or a
\* message holds several output_text entries, the result text and citations
\* come from the last output_text entry in list order over all message
\* items; every earlier one is overwritten.
C8_LastOutputTextWins ==
    (ParserReturned /\ TextPositions(ParserOutput) # {})
        => TextTakenFrom(parserOutcome.value, ParserOutput,
                         LastPosition(TextPositions(ParserOutput)))

\* Two message items with different texts have been parsed and the result
\* holds the text of the later one.
C8_Witness ==
    /\ ParserReturned
    /\ LET S == TextPositions(ParserOutput)
       IN /\ S # {}
          /\ FirstPosition(S)[1] # LastPosition(S)[1]
          /\ Get(EntryAt(ParserOutput, FirstPosition(S)), "text", "")
                # Get(EntryAt(ParserOutput, LastPosition(S)), "text", "")
          /\ parserOutcome.value.text = Get(EntryAt(ParserOutput, LastPosition(S)), "text", "")

\* The sources listed by a web_search_call item: those of its action, none
\* when it has no action or its action has no sources.
ItemSources(item) == _extract_sources(Get(item, "action", <<>>))

C10_MissingIsNotAnError ==
    (ParserCalled /\ "output" \in DOMAIN ParserResponse /\ ParserOutput # <<>>)
        => /\ parserOutcome.kind = "return"
           /\ TextPositions(ParserOutput) = {}
                 => (parserOutcome.value.text = "" /\ parserOutcome.value.citations = <<>>)
           /\ SearchCallIndices(ParserOutput) = {}
                 => (parserOutcome.value.search_id = "" /\ parserOutcome.value.sources = <<>>)

\* A response whose only item is a message without output_text has been
\* parsed into an empty result.
C10_Witness ==
    /\ ParserCalled
    /\ "output" \in DOMAIN ParserResponse
    /\ Len(ParserOutput) = 1
    /\ TypeIs(ParserOutput[1], "message")
    /\ Len(ItemContent(ParserOutput[1])) > 0
    /\ TextPositions(ParserOutput) = {}
    /\ parserOutcome.kind = "return"
    /\ parserOutcome.value.text = ""
    /\ parserOutcome.value.citations = <<>>

\* The annotations of the selected output_text entry and the source entries
\* of the selected web_search_call item.
SelectedAnnotations(output) ==
    Get(EntryAt(output, LastPosition(TextPositions(output))), "annotations", <<>>)

SelectedSourceEntries(output) ==
    Get(output[Max(ActionIndices(output))].action, "sources", <<>>)

UrlCitationIndices(annotations) ==
    {i \in 1..Len(annotations) : TypeIs(annotations[i], "url_citation")}

\* The k-th smallest member of a set of indices.
NthIndex(S, k) == CHOOSE i \in S : Cardinality({j \in S : j < i}) = k - 1

StringField(d, key) == IF key \in DOMAIN d THEN d[key] ELSE ""
NumberField(d, key) == IF key \in DOMAIN d THEN d[key] ELSE 0

\* C11: the citations of a parsed result are exactly the url_citation
\* annotations of the selected output_text entry, in annotation order, one
\* Citation per annotation built from url, title, start_index and end_index
\* (a missing string field is "", a missing number 0); annotations of other
\* types contribute nothing. Each source entry of the selected
\* web_search_call item becomes one Source, in order, type defaulting to "web".
C11_CitationsAndSources ==
    ParserReturned =>
        /\ TextPositions(ParserOutput) # {} =>
              LET annotations == SelectedAnnotations(ParserOutput)
                  S == UrlCitationIndices(annotations)
                  citations == parserOutcome.value.citations
              IN /\ Len(citations) = Cardinality(S)
                 /\ \A k \in 1..Len(citations) :
                       LET a == annotations[NthIndex(S, k)]
                       IN citations[k] = [url |-> StringField(a, "url"),
                                          title |-> StringField(a, "title"),
                                          start_index |-> NumberField(a, "start_index"),
                                          end_index |-> NumberField(a, "end_index")]
        /\ ActionIndices(ParserOutput) # {} =>
              LET entries == SelectedSourceEntries(ParserOutput)
                  sources == parserOutcome.value.sources
              IN /\ Len(sources) = Len(entries)
                 /\ \A k \in 1..Len(sources) :
                       sources[k] = [url |-> StringField(entries[k], "url"),
                                     type |-> IF "type" \in DOMAIN entries[k]
                                              THEN entries[k].type ELSE "web"]

\* A parse whose selected entry mixes a file_citation with a url_citation
\* lacking title and end_index, and whose selected sources lack a type.
C11_Witness ==
    /\ ParserReturned
    /\ TextPositions(ParserOutput) # {}
    /\ ActionIndices(ParserOutput) # {}
    /\ SelectedAnnotations(ParserOutput) = <<Ann3, Ann2>>
    /\ SelectedSourceEntries(ParserOutput) = <<Src2, Src1>>
    /\ parserOutcome.value.citations = <<Citation("https://b.com/2", "", 7, 0)>>
    /\ parserOutcome.value.sources =
          <<Source("https://w.com/2", "web"), Source("https://a.com/1", "web")>>

ParsedTwice == call.op = "ResponseParser.parse" /\ Len(parserCalls) = 2

PayloadBuilt == call.op = "_construct_payload" /\ pc = "done"
Payload == outcome.value
PayloadTool == Payload.tools[1]

\* C13: the tool entry of the payload carries filters.allowed_domains
\* exactly when options.allowed_domains is set and non-empty, and then its
\* value is that list in the same order; an unset or empty list gives no
\* filters key.
C13_DomainFilter ==
    PayloadBuilt =>
        LET domains == call.options.allowed_domains
        IN /\ "filters" \in DOMAIN PayloadTool
                 <=> (domains # None /\ Unwrap(domains) # <<>>)
           /\ "filters" \in DOMAIN PayloadTool
                 => (/\ DOMAIN PayloadTool.filters = {"allowed_domains"}
                     /\ PayloadTool.filters.allowed_domains = Unwrap(domains))

\* Payloads have been built for a two-entry list (order kept) and for an
\* empty list (no filters key).
C13_Witness ==
    /\ PayloadBuilt
    /\ call.options.allowed_domains = Some(<<DomainB, DomainA>>)
    /\ PayloadTool.filters.allowed_domains = <<DomainB, DomainA>>

C13_WitnessEmptyList ==
    /\ PayloadBuilt
    /\ call.options.allowed_domains = Some(<<>>)
    /\ "filters" \notin DOMAIN PayloadTool

\* C14: every payload has model equal to options.model, input equal to the
\* query unchanged, a tools list of exactly one entry whose type is
\* web_search, and the fixed include directive.
C14_PayloadShape ==
    PayloadBuilt =>
        /\ Payload.model = call.options.model
        /\ Payload.input = call.query
        /\ Len(Payload.tools) = 1
        /\ PayloadTool.type = "web_search"
        /\ Payload.include = <<"web_search_call.action.sources">>

\* A payload built for a query with surrounding blanks and a non-default
\* model.
C14_Witness ==
    /\ PayloadBuilt
    /\ call.query # strip(call.query)
    /\ call.options.model = "gpt-5"
    /\ Payload.input = call.query
    /\ Payload.model = "gpt-5"

\* C15: the payload carries a top-level reasoning field exactly when
\* options.reasoning_effort is not "low", and then reasoning.effort equals
\* options.reasoning_effort.
C15_Reasoning ==
    PayloadBuilt =>
        /\ "reasoning" \in DOMAIN Payload <=> call.options.reasoning_effort # "low"
        /\ "reasoning" \in DOMAIN Payload
              => Payload.reasoning = [effort |-> call.options.reasoning_effort]

\* A payload built with effort "medium" carries it.
C15_Witness ==
    /\ PayloadBuilt
    /\ call.options.reasoning_effort = "medium"
    /\ Payload.reasoning.effort = "medium"

\* C16 as stated: whenever options.user_location is set, including an empty
\* mapping, the tool entry carries it verbatim; when unset there is no key.
C16_Original ==
    PayloadBuilt =>
        LET location == call.options.user_location
        IN /\ location # None
                 => (/\ "user_location" \in DOMAIN PayloadTool
                     /\ PayloadTool.user_location = Unwrap(location))
           /\ location = None => "user_location" \notin DOMAIN PayloadTool

\* C16: the tool entry carries user_location exactly when
\* options.user_location is set and non-empty, and then verbatim; when it
\* is unset or an empty mapping the tool entry has no user_location key.
C16_UserLocation ==
    PayloadBuilt =>
        LET location == call.options.user_location
        IN /\ "user_location" \in DOMAIN PayloadTool
                 <=> (location # None /\ DOMAIN Unwrap(location) # {})
           /\ "user_location" \in DOMAIN PayloadTool
                 => PayloadTool.user_location = Unwrap(location)

\* A payload built for an empty location mapping has no user_location key.
C16_Witness ==
    /\ PayloadBuilt
    /\ call.options.user_location = Some(<<>>)
    /\ "user_location" \notin DOMAIN PayloadTool

FiltersCalled == call.op = "apply_domain_filters" /\ pc = "done"

\* C17: apply_domain_filters raises a ValueError that mentions the limit of
\* 20 for every list of more than 20 domains, whatever the entries are (the
\* count is checked before any entry), and never raises that error for a
\* list of 20 or fewer.
C17_CountFirst ==
    FiltersCalled =>
        /\ Len(call.domains) > 20
              => outcome = Raise(Exc("ValueError", "Too many domains (max 20 allowed)"))
        /\ Len(call.domains) <= 20
              => outcome # Raise(Exc("ValueError", "Too many domains (max 20 allowed)"))

\* A list of 21 entries whose first entry has a scheme prefix has been
\* refused for its length.
C17_Witness ==
    /\ FiltersCalled
    /\ Len(call.domains) = 21
    /\ HasSchemePrefix(call.domains[1])
    /\ outcome = Raise(TooManyDomains)

\* The entries a list is refused for, and the first of them.
IsWhitespace(ch) == ch \in {" ", "\t"}
OffendingAsStated(domain) ==
    domain = <<>> \/ HasSchemePrefix(domain) \/ \E i \in 1..Len(domain) : IsWhitespace(domain[i])
Offending(domain) ==
    domain = <<>> \/ HasSchemePrefix(domain) \/ \E i \in 1..Len(domain) : domain[i] = " "

NamesEntry(exc, domain) ==
    /\ exc.cls = "ValueError"
    /\ exc.msg \in {"Invalid domain '" \o Text(domain) \o "': remove http:// or https:// prefix",
                    "Invalid domain format: '" \o Text(domain) \o "'"}

AcceptedUnchanged ==
    outcome = Return([model |-> "gpt-4o-mini", allowed_domains |-> Some(call.domains),
                      user_location |-> None, reasoning_effort |-> "low"])

\* C18 as stated: a list of at most 20 domains is accepted exactly when
\* every entry is non-empty, has no http:// or https:// prefix and has no
\* embedded whitespace of any kind; otherwise the error names the first
\* offending entry.
C18_Original ==
    (FiltersCalled /\ Len(call.domains) <= 20) =>
        LET bad == {i \in 1..Len(call.domains) : OffendingAsStated(call.domains[i])}
        IN IF bad = {} THEN AcceptedUnchanged
           ELSE /\ outcome.kind = "raise"
                /\ NamesEntry(outcome.exc, call.domains[Min(bad)])

\* C18: a list of at most 20 domains is accepted, giving SearchOptions with
\* allowed_domains equal to the list in the same order and every other field
\* at its default, exactly when every entry is non-empty, has no http:// or
\* https:// prefix and contains no space character (other whitespace, such
\* as a tab, is not looked for); otherwise a ValueError names the first
\* offending entry in list order.
C18_DomainFormat ==
    (FiltersCalled /\ Len(call.domains) <= 20) =>
        LET bad == {i \in 1..Len(call.domains) : Offending(call.domains[i])}
        IN IF bad = {} THEN AcceptedUnchanged
           ELSE /\ outcome.kind = "raise"
                /\ NamesEntry(outcome.exc, call.domains[Min(bad)])

\* A list of 20 entries whose last entry is empty has been refused for that
\* entry; a list holding a tab-bearing entry has been accepted.
C18_Witness ==
    /\ FiltersCalled
    /\ Len(call.domains) = 20
    /\ call.domains[20] = <<>>
    /\ outcome = Raise(Exc("ValueError", "Invalid domain format: ''"))

C18_WitnessTab ==
    /\ FiltersCalled
    /\ call.domains = <<PlainDomain, <<"a", "\t", "b">>>>
    /\ AcceptedUnchanged

Constructing == call.op \in {"SearchService", "WebSearchClient"} /\ pc = "done"

\* No non-empty credential is available to the constructor: the argument is
\* absent or empty and, for the gateway built on its own, so is the
\* OPENAI_API_KEY variable it falls back to.
NoCredential ==
    /\ call.api_key \in {None, Some("")}
    /\ call.op = "WebSearchClient" => call.env \in {None, Some("")}

\* C19: constructing WebSearchClient or SearchService without a non-empty
\* credential fails at construction time with the missing-credential error
\* (a ValueError) and leaves no gateway behind; every gateway that exists
\* holds a non-empty credential; and no step of any later call changes it.
C19_Credential ==
    /\ [](Constructing /\ NoCredential
             => (/\ outcome.kind = "raise"
                 /\ outcome.exc.cls = "ValueError"
                 /\ outcome.exc.msg \in
                       {"API key is required",
                        "API key must be provided or set in OPENAI_API_KEY environment variable"}
                 /\ gateway = None))
    /\ [](gateway # None => Unwrap(gateway).api_key # "")
    /\ [](pc \in {"validated", "client_returned"} => gateway # None)
    /\ [][gateway # None => gateway' = gateway]_vars

\* A construction without a credential has failed, and a search has run to
\* the end on a service whose gateway still holds the key it was built with.
C19_Witness ==
    /\ Constructing
    /\ call.op = "WebSearchClient"
    /\ call.api_key = Some("")
    /\ call.env = None
    /\ outcome = Raise(MissingKey)
    /\ gateway = None

C19_WitnessSearch ==
    /\ ServiceDone
    /\ providerCalls # <<>>
    /\ gateway = Some([owner |-> "SearchService", api_key |-> "sk-arg-0123456789abcdef"])

\* The provider call of this invocation returned a response object.
ProviderReturned == provider # None /\ Unwrap(provider).kind = "return"

\* C20: normalization never raises: for any provider response (no output
\* attribute, output items given as plain mappings, items lacking a type,
\* sources or annotations absent, None or lacking a field) _response_to_dict
\* completes, so the gateway returns a normalized response.
C20_NormalizationTotal ==
    (ServiceCall /\ ProviderReturned) =>
        /\ _response_to_dict(Unwrap(provider).response).ok
        /\ clientOutcome.kind = "return"

\* C21: when several search invocations run concurrently on one
\* SearchService, in any interleaving, the outcome of each finished
\* invocation equals the outcome it would produce alone from its own query,
\* options and provider response, and the credential, the only state the
\* invocations share, is the one the service was built with.
C21_InvocationsIndependent ==
    /\ \A i \in DOMAIN frames :
          frames[i].pc = "done"
             => frames[i].outcome =
                   ServiceSearchAlone(frames[i].query, frames[i].optionsArg,
                                      frames[i].behaviour, frames[i].now)
    /\ frames # <<>>
          => gateway = Some([owner |-> "SearchService",
                             api_key |-> "sk-arg-0123456789abcdef"])

\* Invocation 1 has returned a result while invocation 2, started with a
\* different query and other options, is between its gateway call and its
\* parse.
C21_Witness ==
    /\ frames # <<>>
    /\ frames[1].pc = "done"
    /\ frames[1].outcome.kind = "return"
    /\ frames[2].pc = "client_returned"
    /\ frames[2].query # frames[1].query
    /\ frames[2].optionsArg # frames[1].optionsArg
    /\ frames[2].raw_response # frames[1].raw_response

\* C22: every Citation of a SearchResult produced by parse has
\* end_index >= start_index, so its length is never negative, whatever
\* url_citation annotation values are supplied (a missing end_index being
\* defaulted to 0).
C22_CitationOrdered ==
    ParserReturned =>
        \A k \in 1..Len(parserOutcome.value.citations) :
            LET citation == parserOutcome.value.citations[k]
            IN /\ citation.end_index >= citation.start_index
               /\ CitationLength(citation) >= 0

ClientCalled == call.op = "WebSearchClient.search" /\ pc = "done"

\* C23: WebSearchClient.search, called directly, rejects a query that is
\* empty, all-whitespace or longer than 5000 characters with a ValueError
\* (not a SearchError, so never UNKNOWN_ERROR), before the payload is built
\* and before any provider call.
C23_ClientRejectsInvalidQuery ==
    (ClientCalled /\ (QueryIsBlank(call.query) \/ PyLen(call.query) > 5000)) =>
        /\ outcome.kind = "raise"
        /\ outcome.exc.cls = "ValueError"
        /\ outcome.exc.msg \in {"Query cannot be empty",
                                "Query too long (max 5000 characters)"}
        /\ providerCalls = <<>>
        /\ provider = None

\* A query of 5001 characters has been refused by the gateway itself.
C23_Witness ==
    /\ ClientCalled
    /\ call.query = <<[ch |-> "a", n |-> 5001]>>
    /\ outcome = Raise(Exc("ValueError", "Query too long (max 5000 characters)"))
    /\ providerCalls = <<>>

ErrorPrinted == call.op = "SearchError.__str__" /\ pc = "done"

\* C24: str(SearchError) is "[CODE] message", followed by
\* " | Details: {...}" exactly when details is present and non-empty;
\* constructing and stringifying the error leave its code, message and
\* details as they were given.
C24_ErrorString ==
    ErrorPrinted =>
        LET head == "[" \o call.code \o "] " \o call.message
            shown == call.details # None /\ DOMAIN Unwrap(call.details) # {}
        IN /\ shown => outcome.value
                          = head \o " | Details: " \o DictRepr(Unwrap(call.details))
           /\ ~shown => outcome.value = head
           /\ call.error.code = call.code
           /\ call.error.message = call.message
           /\ call.error.details = call.details

\* An error with a one-entry details mapping has been printed, and one with
\* an empty mapping.
C24_Witness ==
    /\ ErrorPrinted
    /\ call.details = Some([original_error |-> "timed out"])
    /\ outcome.value
          = "[TEST_ERROR] Test message | Details: {'original_error': 'timed out'}"

C24_WitnessEmptyDetails ==
    /\ ErrorPrinted
    /\ call.details = Some(<<>>)
    /\ outcome.value = "[TEST_ERROR] Test message"

Displayed == call.op = "format_for_display" /\ pc = "done"
DisplayedLines == outcome.value

\* The index of the last line of the citation section.
CitationsEnd ==
    IF call.result.citations = <<>> THEN 8 ELSE 8 + 2 * Len(call.result.citations)

\* Lines 8.. hold "Citations: None" exactly when there are no citations, and
\* otherwise a numbered title line and a url line per citation, in order.
CitationSectionAsStated ==
    LET citations == call.result.citations
    IN /\ citations = <<>> <=> DisplayedLines[8] = "Citations: None"
       /\ citations # <<>>
             => /\ DisplayedLines[8] = "Citations:"
                /\ \A k \in 1..Len(citations) :
                      /\ DisplayedLines[8 + 2 * k - 1]
                            = "  [" \o Str(k) \o "] " \o citations[k].title
                      /\ DisplayedLines[8 + 2 * k] = "      " \o citations[k].url
       /\ DisplayedLines[CitationsEnd + 1] = ""

\* From line `first` on: the count header, min(5, n) source lines, the
\* "more" line exactly when n > 5, and the closing rule.
SourceSectionAt(first) ==
    LET sources == call.result.sources
        n == Len(sources)
        shown == IF n < 5 THEN n ELSE 5
    IN /\ DisplayedLines[first] = "Sources (" \o Str(n) \o " total):"
       /\ \A k \in 1..shown :
             DisplayedLines[first + k]
                = "  - " \o sources[k].url \o " (" \o sources[k].type \o ")"
       /\ IF n > 5
          THEN /\ DisplayedLines[first + shown + 1]
                     = "  ... and " \o Str(n - 5) \o " more"
               /\ Len(DisplayedLines) = first + shown + 2
          ELSE Len(DisplayedLines) = first + shown + 1
       /\ DisplayedLines[Len(DisplayedLines)] = Repeat("=", 80)

\* C25 as stated: the source count header is always emitted, whatever the
\* number of sources.
C25_Original ==
    Displayed => (CitationSectionAsStated /\ SourceSectionAt(CitationsEnd + 2))

\* C25: for a result with n >= 1 sources format_for_display emits a source
\* count header, min(5, n) source lines and a trailing "... and N more"
\* line with N = n - 5 exactly when n > 5; for a result without sources it
\* emits no source section at all, not even the header. It emits the
\* literal "Citations: None" exactly when the citation list is empty and
\* otherwise one numbered title line and one url line per citation, in order.
C25_DisplayLayout ==
    Displayed =>
        /\ CitationSectionAsStated
        /\ IF call.result.sources = <<>>
           THEN /\ Len(DisplayedLines) = CitationsEnd + 2
                /\ DisplayedLines[CitationsEnd + 2] = Repeat("=", 80)
           ELSE SourceSectionAt(CitationsEnd + 2)

\* A result with two citations and six sources has been laid out: five
\* source lines and "... and 1 more".
C25_Witness ==
    /\ Displayed
    /\ Len(call.result.citations) = 2
    /\ Len(call.result.sources) = 6
    /\ DisplayedLines[14] = "Sources (6 total):"
    /\ DisplayedLines[19] = "  - https://s.com/5 (web)"
    /\ DisplayedLines[20] = "  ... and 1 more"
    /\ Len(DisplayedLines) = 21

C25_WitnessNoSources ==
    /\ Displayed
    /\ call.result.sources = <<>>
    /\ call.result.citations = <<>>
    /\ DisplayedLines[8] = "Citations: None"
    /\ Len(DisplayedLines) = 10

\* An allowed_domains list that keeps the SearchOptions invariant.
DomainsValid(domains) ==
    /\ Len(domains) <= 20
    /\ \A k \in 1..Len(domains) :
          /\ domains[k] # <<>>
          /\ ~HasSchemePrefix(domains[k])
          /\ ~Contains(domains[k], " ")

\* C26: in every SearchOptions value that reaches the request builder
\* through SearchService.search, allowed_domains when present has at most
\* 20 entries, each non-empty, without http:// or https:// prefix and without
\* spaces; no provider payload carries a domain filter that breaks this.
C26_DomainsValidAtBuilder ==
    ServiceCall =>
        /\ (options # None /\ Unwrap(options).allowed_domains # None)
              => DomainsValid(Unwrap(Unwrap(options).allowed_domains))
        /\ \A k \in 1..Len(providerCalls) :
              "filters" \in DOMAIN providerCalls[k].tools[1]
                 => DomainsValid(providerCalls[k].tools[1].filters.allowed_domains)

\* C27: within one SearchService.search invocation the steps go validate,
\* gateway call, parse: the gateway is called only for a query that passed
\* validation; the parser is invoked only after the gateway has returned,
\* exactly once by the end, with the gateway's response and the caller's
\* original query; when the gateway raises the parser is never invoked; and
\* when the options are absent the gateway receives the default options
\* (default model, no domains, no location, effort "low").
C27_StepOrder ==
    ServiceCall =>
        /\ (clientOutcome # NoOutcome \/ providerCalls # <<>>)
              => (~QueryIsBlank(call.query) /\ PyLen(call.query) <= 5000)
        /\ parserCalls # <<>>
              => /\ clientOutcome.kind = "return"
                 /\ parserCalls = <<[response |-> clientOutcome.value,
                                     query |-> call.query]>>
        /\ clientOutcome.kind = "raise" => (parserCalls = <<>> /\ parserOutcome = NoOutcome)
        /\ (pc = "done" /\ clientOutcome.kind = "return") => Len(parserCalls) = 1
        /\ (call.options = None /\ options # None)
              => options = Some([model |-> "gpt-4o-mini", allowed_domains |-> None,
                                 user_location |-> None, reasoning_effort |-> "low"])
        /\ (call.options = None /\ providerCalls # <<>>)
              => providerCalls[1] = [model |-> "gpt-4o-mini", input |-> call.query,
                                     tools |-> <<[type |-> "web_search"]>>,
                                     include |-> <<"web_search_call.action.sources">>]

\* A search without options, for a query with a leading blank, has gone
\* through all three steps; and one whose gateway call raised has ended
\* without a parse.
C27_Witness ==
    /\ ServiceDone
    /\ call.options = None
    /\ call.query # strip(call.query)
    /\ clientOutcome.kind = "return"
    /\ Len(parserCalls) = 1
    /\ outcome.kind = "return"

C27_WitnessGatewayRaised ==
    /\ ServiceDone
    /\ clientOutcome.kind = "raise"
    /\ parserCalls = <<>>

\* The items of one type, in their order, and what parse makes of a
\* response holding just these items.
ItemsOfType(output, t) == SelectSeq(output, LAMBDA item : TypeIs(item, t))

ParsedAlone(items) ==
    IF items = <<>>
    THEN [text |-> "", citations |-> <<>>, search_id |-> "", sources |-> <<>>]
    ELSE parse([output |-> items], ParserQuery, 1).value

\* C28: the two passes of parse are independent: text and citations are
\* those of the message items alone, in their order, and search_id and
\* sources those of the web_search_call items alone, in their order; items
\* of the other type or of an unrecognized type, wherever they stand, change
\* neither.
C28_PassesIndependent ==
    ParserReturned =>
        LET messages == ItemsOfType(ParserOutput, "message")
            calls == ItemsOfType(ParserOutput, "web_search_call")
        IN /\ parserOutcome.value.text = ParsedAlone(messages).text
           /\ parserOutcome.value.citations = ParsedAlone(messages).citations
           /\ parserOutcome.value.search_id = ParsedAlone(calls).search_id
           /\ parserOutcome.value.sources = ParsedAlone(calls).sources

\* A response holding a message, then a web_search_call item, then an item
\* without a type has been parsed into a result with text and sources.
C28_Witness ==
    /\ ParserReturned
    /\ Len(ParserOutput) = 3
    /\ TypeIs(ParserOutput[1], "message")
    /\ TypeIs(ParserOutput[2], "web_search_call")
    /\ ~Has(ParserOutput[3], "type")
    /\ parserOutcome.value.text # ""
    /\ parserOutcome.value.citations # <<>>
    /\ parserOutcome.value.sources # <<>>

\* C29: in every SearchResult produced by parse, search_id and sources
\* originate from one and the same web_search_call item of the response,
\* and text and citations from one and the same output_text entry.
C29_SameOrigin ==
    ParserReturned =>
        /\ SearchCallIndices(ParserOutput) # {}
              => \E i \in SearchCallIndices(ParserOutput) :
                    /\ parserOutcome.value.search_id = Get(ParserOutput[i], "id", "")
                    /\ parserOutcome.value.sources = ItemSources(ParserOutput[i])
        /\ TextPositions(ParserOutput) # {}
              => \E p \in TextPositions(ParserOutput) :
                    TextTakenFrom(parserOutcome.value, ParserOutput, p)

\* The gateway's own check lets the query through: WebSearchClient.search
\* gets as far as the provider call.
GatewayAccepts(query) ==
    WebSearchClient_search(query, None,
                           ProviderRaises(Exc("TimeoutError", "timed out"))).calls # <<>>

GatewayValidationMessages ==
    {"Query cannot be empty", "Query too long (max 5000 characters)"}

\* C30: validate_query and the gateway's own query check accept exactly the
\* same queries, so within SearchService.search the gateway never raises
\* its validation error, and no such error reaches the caller wrapped as
\* SearchError SEARCH_FAILED.
C30_SameValidation ==
    /\ ServiceCall
          => /\ validate_query(call.query) <=> GatewayAccepts(call.query)
             /\ clientOutcome.kind = "raise" => clientOutcome.exc.cls = "SearchError"
             /\ (RaisedSearchError /\ outcome.exc.code = "SEARCH_FAILED")
                   => outcome.exc.details
                         \notin {Some([original_error |-> m]) : m \in GatewayValidationMessages}
    /\ (call.op = "WebSearchClient.search" /\ pc = "done")
          => (validate_query(call.query) <=> providerCalls # <<>>)

\* A query of exactly 5000 characters has passed both checks and the
\* gateway has returned; a query of 5001 characters with a leading blank
\* has been refused by the orchestrator, and the gateway would refuse it too.
C30_Witness ==
    /\ ServiceCall
    /\ call.query = <<[ch |-> "a", n |-> 5000]>>
    /\ validate_query(call.query)
    /\ clientOutcome.kind = "return"

C30_WitnessRejected ==
    /\ ServiceDone
    /\ call.query = <<[ch |-> " ", n |-> 1], [ch |-> "a", n |-> 5000]>>
    /\ RaisedValueError
    /\ ~GatewayAccepts(call.query)

====
